---------------------------- MODULE Spec2Model ----------------------------
(***************************************************************************)
(* Model of scripts/generate_html.py: the client-sheet renderer.           *)
(*                                                                         *)
(* Text is a sequence of pieces.  Text that comes from the input record is *)
(* a sequence of one-character pieces; mapping keys, column names and the  *)
(* fixed markup of the script are single pieces.  "".join and f-string     *)
(* interpolation are concatenation of such sequences.  A character outside *)
(* ASCII is written by its code point ("U+2013" is the en dash).           *)
(*                                                                         *)
(* A parsed JSON value is a record [t, v]: t is the Python type json.load  *)
(* gives it ("dict", "list", "str", "num", "null") and v its payload.  A   *)
(* dict keeps its pairs <<key, value>> in document order.                  *)
(***************************************************************************)
EXTENDS Integers, Sequences, FiniteSets, TLC

VARIABLES
    argv,       \* sys.argv[1:] of the current invocation
    input,      \* what the file named by argv holds: [kind, data]
    clients,    \* the output directory: [exists, files], files: slug -> document
    now,        \* the UTC clock read by datetime.utcnow()
    pc,         \* position of the current invocation
    run,        \* number of the current invocation (1-based)
    locals,     \* the names bound so far: globals at top level, locals in main()
    stdout,     \* lines printed by the current invocation
    stderr,     \* the uncaught exception of the current invocation, "" if none
    status,     \* exit status of the current invocation, -1 while it runs
    steps,      \* the pipeline steps the current invocation has taken, in order
    before,     \* the output directory as it was when the invocation started
    log,        \* one entry per finished invocation: its input and outcome
    fn          \* call frame of a helper applied on its own: [f, args, ret]

vars == <<argv, input, clients, now, pc, run, locals, stdout, stderr, status,
          steps, before, log, fn>>

-----------------------------------------------------------------------------
(* Bounds of the model                                                     *)

MaxRuns == 2        \* invocations in a row
MaxNameLen == 3     \* characters of a generated name
MaxRows == 2        \* rows of a generated measurement sequence
MaxItems == 2       \* entries of a generated list of text items

-----------------------------------------------------------------------------
(* JSON / Python values                                                    *)

JStr(s) == [t |-> "str", v |-> s]
JNum(n) == [t |-> "num", v |-> n]
JNull == [t |-> "null", v |-> <<>>]
JList(items) == [t |-> "list", v |-> items]
JDict(pairs) == [t |-> "dict", v |-> pairs]

\* isinstance(x, dict)
IsDict(x) == x.t = "dict"

\* k in d, for a dict d
HasKey(d, k) == \E i \in 1..Len(d.v) : d.v[i][1] = k

\* d[k], for a dict d that has k
Lookup(d, k) == d.v[CHOOSE i \in 1..Len(d.v) : d.v[i][1] = k][2]

\* d.get(k, default), for a dict d
DictGet(d, k, default) == IF HasKey(d, k) THEN Lookup(d, k) ELSE default

\* bool(x) is False
Falsy(x) ==
    \/ x.t = "null"
    \/ x.t = "num" /\ x.v = 0
    \/ x.t \in {"str", "list", "dict"} /\ x.v = <<>>

\* iter(x) succeeds
Iterable(x) == x.t \in {"list", "str", "dict"}

\* the values "for item in x" visits, in order
Iterate(x) ==
    CASE x.t = "list" -> x.v
      [] x.t = "str" -> [i \in 1..Len(x.v) |-> JStr(<<x.v[i]>>)]
      [] x.t = "dict" -> [i \in 1..Len(x.v) |-> JStr(<<x.v[i][1]>>)]
      [] OTHER -> <<>>

RECURSIVE Flatten(_)
Flatten(ss) == IF ss = <<>> THEN <<>> ELSE Head(ss) \o Flatten(Tail(ss))

DigitChars == <<"0", "1", "2", "3", "4", "5", "6", "7", "8", "9">>

RECURSIVE Decimal(_)
Decimal(n) ==
    IF n < 0 THEN <<"-">> \o Decimal(-n)
    ELSE IF n < 10 THEN <<DigitChars[n + 1]>>
    ELSE Decimal(n \div 10) \o <<DigitChars[(n % 10) + 1]>>

\* repr() of a str: the quote is " only when the text holds ' and no "
ReprQuote(s) ==
    IF (\E i \in 1..Len(s) : s[i] = "'") /\ ~(\E i \in 1..Len(s) : s[i] = "\"")
    THEN "\"" ELSE "'"

ReprChar(c, q) ==
    CASE c = "\t" -> <<"\\", "t">>
      [] c = "\n" -> <<"\\", "n">>
      [] c = "\\" -> <<"\\", "\\">>
      [] c = q -> <<"\\", c>>
      [] OTHER -> <<c>>

ReprStr(s) ==
    LET q == ReprQuote(s)
    IN <<q>> \o Flatten([i \in 1..Len(s) |-> ReprChar(s[i], q)]) \o <<q>>

RECURSIVE Repr(_)
RECURSIVE ReprJoin(_)
Repr(x) ==
    CASE x.t = "str" -> ReprStr(x.v)
      [] x.t = "num" -> Decimal(x.v)
      [] x.t = "null" -> <<"N", "o", "n", "e">>
      [] x.t = "list" -> <<"[">> \o ReprJoin([i \in 1..Len(x.v) |-> Repr(x.v[i])]) \o <<"]">>
      [] x.t = "dict" ->
            <<"{">> \o ReprJoin([i \in 1..Len(x.v) |->
                          ReprStr(<<x.v[i][1]>>) \o <<":", " ">> \o Repr(x.v[i][2])])
                    \o <<"}">>
ReprJoin(ss) ==
    IF ss = <<>> THEN <<>>
    ELSE IF Len(ss) = 1 THEN ss[1]
    ELSE ss[1] \o <<",", " ">> \o ReprJoin(Tail(ss))

\* str(x), which is what an f-string and Template.substitute put into the text
Format(x) == IF x.t = "str" THEN x.v ELSE Repr(x)

-----------------------------------------------------------------------------
(* slugify                                                                 *)

UpperLetters == <<"A", "B", "C", "D", "E", "F", "G", "H", "I", "J", "K", "L", "M",
                  "N", "O", "P", "Q", "R", "S", "T", "U", "V", "W", "X", "Y", "Z">>
LowerLetters == <<"a", "b", "c", "d", "e", "f", "g", "h", "i", "j", "k", "l", "m",
                  "n", "o", "p", "q", "r", "s", "t", "u", "v", "w", "x", "y", "z">>

Range(s) == {s[i] : i \in 1..Len(s)}

\* str.isspace() of one character
IsSpace(c) == c \in {" ", "\t", "\n"}

\* str.lower() of one character; "U+00C9" is E acute, "U+00E9" its lower case
LowerChar(c) ==
    IF c \in Range(UpperLetters)
    THEN LowerLetters[CHOOSE i \in 1..26 : UpperLetters[i] = c]
    ELSE IF c = "U+00C9" THEN "U+00E9" ELSE c

RECURSIVE LStrip(_)
LStrip(s) == IF s # <<>> /\ IsSpace(Head(s)) THEN LStrip(Tail(s)) ELSE s

RECURSIVE RStrip(_)
RStrip(s) ==
    IF s # <<>> /\ IsSpace(s[Len(s)]) THEN RStrip(SubSeq(s, 1, Len(s) - 1)) ELSE s

\* a strip that trims the left end only (name.lstrip())
StripLeftOnly(s) == LStrip(s)

\* name.strip()
Strip(s) == RStrip(LStrip(s))

\* s.lower()
Lower(s) == [i \in 1..Len(s) |-> LowerChar(s[i])]

\* the characters the pattern [^a-z0-9\- ] does not match
SlugKeep(c) == c \in Range(LowerLetters) \cup Range(DigitChars) \cup {"-", " "}

\* re.sub(r'[^a-z0-9\- ]', '', s)
SubDisallowed(s) == SelectSeq(s, SlugKeep)

\* s.replace(' ', '-')
ReplaceSpaces(s) == [i \in 1..Len(s) |-> IF s[i] = " " THEN "-" ELSE s[i]]

ClientToken == <<"c", "l", "i", "e", "n", "t">>

\* s or 'client'
OrClient(s) == IF s = <<>> THEN ClientToken ELSE s

slugify(name) == OrClient(ReplaceSpaces(SubDisallowed(Lower(Strip(name)))))

-----------------------------------------------------------------------------
(* Lookup helpers                                                          *)

\* get_list(d, names), for a dict d: the value of the first name d has
RECURSIVE get_list(_, _)
get_list(d, names) ==
    IF names = <<>> THEN JList(<<>>)
    ELSE IF HasKey(d, Head(names)) THEN Lookup(d, Head(names))
    ELSE get_list(d, Tail(names))

\* safe_get(d, *keys, default=default)
RECURSIVE safe_get(_, _, _)
safe_get(d, keys, default) ==
    IF keys = <<>> THEN d
    ELSE IF IsDict(d) /\ HasKey(d, Head(keys))
         THEN safe_get(Lookup(d, Head(keys)), Tail(keys), default)
         ELSE default

-----------------------------------------------------------------------------
(* Fragment renderers                                                      *)

\* a walk that misses the first row (rows[1:])
RowsOfSkipFirst(rows) == IF Falsy(rows) THEN <<>> ELSE Tail(Iterate(rows))

\* "for r in rows or []"
RowsOf(rows) == IF Falsy(rows) THEN <<>> ELSE Iterate(rows)

\* the exception render_table(rows, headers) raises, "" when it returns
render_table_raises(rows, headers) ==
    IF ~Falsy(rows) /\ ~Iterable(rows) THEN "TypeError"
    ELSE IF headers # <<>> /\ \E i \in 1..Len(RowsOf(rows)) : ~IsDict(RowsOf(rows)[i])
         THEN "AttributeError"
         ELSE ""

\* the <th> cells of the header row
HeaderCells(headers) ==
    Flatten([j \in 1..Len(headers) |-> <<"<th>", headers[j], "</th>">>])

\* f"<td>{r.get(h, '')}</td>"
Cell(r, h) == <<"<td>">> \o Format(DictGet(r, h, JStr(<<>>))) \o <<"</td>">>

\* one body row: "<tr>", a cell per header, "</tr>"
BodyRow(r, headers) ==
    <<"<tr>">> \o Flatten([j \in 1..Len(headers) |-> Cell(r, headers[j])]) \o <<"</tr>">>

\* render_table(rows, headers), when it returns
render_table(rows, headers) ==
    <<"<table><thead><tr>">> \o HeaderCells(headers) \o <<"</tr></thead><tbody>">>
    \o Flatten([i \in 1..Len(RowsOf(rows)) |-> BodyRow(RowsOf(rows)[i], headers)])
    \o <<"</tbody></table>">>

\* the exception "".join([f"<li>{item}</li>" for item in items]) raises, "" if none
render_list_raises(items) == IF Iterable(items) THEN "" ELSE "TypeError"

\* f"<li>{item}</li>"
ListItem(item) == <<"<li>">> \o Format(item) \o <<"</li>">>

\* "".join([f"<li>{item}</li>" for item in items])
render_list(items) ==
    Flatten([i \in 1..Len(Iterate(items)) |-> ListItem(Iterate(items)[i])])

MeasurementHeaders == <<"Area", "Measurement", "Notes">>

-----------------------------------------------------------------------------
(* Document assembly                                                       *)

\* the css string of main(), one piece
Css ==
    "\n    :root{ --bg:#fafafa; --text:#111; --muted:#555; --border:#ddd }"
    \o "\n    *{ box-sizing:border-box }"
    \o "\n    body{ margin:0; padding:32px; font-family:-apple-system,BlinkMacSystemFont,Segoe UI,Roboto,Helvetica,Arial,sans-serif; background:var(--bg); color:var(--text) }"
    \o "\n    .container{ max-width:750px; margin:0 auto; background:#fff; border:1px solid var(--border); border-radius:14px; box-shadow:0 6px 22px rgba(0,0,0,.06) }"
    \o "\n    header{ padding:24px 24px 8px; border-bottom:1px solid var(--border) }"
    \o "\n    h1{ margin:0 0 6px; font-size:28px }"
    \o "\n    .meta{ color:var(--muted); font-size:14px }"
    \o "\n    section{ padding:20px 24px }"
    \o "\n    h2{ font-size:18px; margin:0 0 12px; color:#222 }"
    \o "\n    h3{ font-size:16px; margin:10px 0 8px; color:#222 }"
    \o "\n    table{ width:100%; border-collapse:collapse; margin:8px 0 16px }"
    \o "\n    th, td{ border:1px solid var(--border); padding:10px 12px; text-align:left; vertical-align:top }"
    \o "\n    th{ background:#f4f6f8; font-weight:600 }"
    \o "\n    ul{ margin:8px 0 0 20px }"
    \o "\n    li{ margin:6px 0 }"
    \o "\n    .info-grid{ display:grid; grid-template-columns: 1fr 1fr; gap:10px }"
    \o "\n    footer{ padding:16px 24px 24px; color:var(--muted); font-size:12px }"
    \o "\n    "

\* the info_html f-string of main()
InfoHtml(name, height, weight, notes) ==
    <<"\n      <div class=\"info-grid\">\n        <div><strong>Name:</strong> ">>
    \o Format(name)
    \o <<"</div>\n        <div><strong>Height:</strong> ">> \o Format(height)
    \o <<"</div>\n        <div><strong>Weight:</strong> ">> \o Format(weight)
    \o <<"</div>\n        <div><strong>Notes:</strong> ">> \o Format(notes)
    \o <<"</div>\n      </div>\n    ">>

Heading1 == "<h2>Section 1: Client Information</h2>"
Heading2 == "<h2>Section 2: Measurements</h2>"
Heading3 == "<h2>Section 3: Style Choices</h2>"
Heading4 == "<h2>Section 4: Tailor Instructions</h2>"

\* the template text of main(): fixed pieces and $placeholders, in order
TemplatePieces ==
    << "<!doctype html>\n<html lang=\"en\">\n<head>\n  <meta charset=\"utf-8\">\n  <meta name=\"viewport\" content=\"width=device-width, initial-scale=1\">\n  <title>Client Sheet U+2013 ",
       "$name", "</title>\n  <style>", "$css",
       "</style>\n</head>\n<body>\n  <div class=\"container\">\n    <header>\n      <h1>Client Sheet U+2013 ",
       "$name", "</h1>\n      <div class=\"meta\">Date: ", "$date_str",
       " U+00B7 Garment: ", "$garment",
       "</div>\n    </header>\n\n    <section>\n      ", Heading1, "\n      ",
       "$info_html", "\n    </section>\n\n    <section>\n      ", Heading2,
       "\n\n      <h3>Shirt</h3>\n      ", "$shirt_table",
       "\n\n      <h3>Trouser</h3>\n      ", "$trouser_table",
       "\n    </section>\n\n    <section>\n      ", Heading3,
       "\n      <h3>Shirt</h3>\n      <ul>", "$style_shirt_html",
       "</ul>\n      <h3>Trouser</h3>\n      <ul>", "$style_trouser_html",
       "</ul>\n    </section>\n\n    <section>\n      ", Heading4,
       "\n      <ul>", "$instructions_html",
       "</ul>\n    </section>\n\n    <footer>\n      Generated on ", "$generated_on",
       "\n    </footer>\n  </div>\n</body>\n</html>\n" >>

\* Template(tpl).substitute(**mapping): each $placeholder gives str(mapping[it])
Substitute(tpl, mapping) ==
    Flatten([i \in 1..Len(tpl) |->
        IF tpl[i] \in DOMAIN mapping THEN Format(mapping[tpl[i]]) ELSE <<tpl[i]>>])

\* n in decimal, zero-padded to w digits
RECURSIVE Pad(_, _)
Pad(n, w) == IF w <= 0 THEN <<>> ELSE Pad(n \div 10, w - 1) \o <<DigitChars[(n % 10) + 1]>>

\* t.strftime('%Y-%m-%d %H:%M UTC') of an instant t = [Y, M, D, h, m]
Strftime(t) ==
    (IF t.Y < 10000 THEN Pad(t.Y, 4) ELSE Decimal(t.Y)) \o <<"-">> \o Pad(t.M, 2)
    \o <<"-">> \o Pad(t.D, 2) \o <<" ">> \o Pad(t.h, 2) \o <<":">> \o Pad(t.m, 2)
    \o <<" ", "U", "T", "C">>

\* the keyword arguments of tpl.substitute in main(), from its locals l
SubstituteArgs(l, t) ==
    [x \in {"$name", "$date_str", "$garment", "$css", "$info_html", "$shirt_table",
            "$trouser_table", "$style_shirt_html", "$style_trouser_html",
            "$instructions_html", "$generated_on"} |->
        CASE x = "$name" -> l.name
          [] x = "$date_str" -> l.date_str
          [] x = "$garment" -> l.garment
          [] x = "$css" -> JStr(<<Css>>)
          [] x = "$info_html" -> JStr(l.info_html)
          [] x = "$shirt_table" -> JStr(l.shirt_table)
          [] x = "$trouser_table" -> JStr(l.trouser_table)
          [] x = "$style_shirt_html" -> JStr(l.style_shirt_html)
          [] x = "$style_trouser_html" -> JStr(l.style_trouser_html)
          [] x = "$instructions_html" -> JStr(l.instructions_html)
          [] x = "$generated_on" -> JStr(Strftime(t))]

-----------------------------------------------------------------------------
(* Inputs: the records an invocation may be given                          *)

KeyClientInfo == "Client Information"
KeyShirtEnDash == "Measurements U+2013 Shirt"
KeyTrouserEnDash == "Measurements U+2013 Trouser"
KeyShirtHyphen == "Measurements - Shirt"
KeyTrouserHyphen == "Measurements - Trouser"
KeyStyles == "Style Choices"
KeyInstructions == "Tailor Instructions"

UnknownClient == <<"U", "n", "k", "n", "o", "w", "n", " ", "C", "l", "i", "e", "n", "t">>
EmptyStr == JStr(<<>>)
EmptyList == JList(<<>>)
EmptyDict == JDict(<<>>)

NameTestUser == <<"T", "e", "s", "t", " ", "U", "s", "e", "r">>
NameJaneDoe == <<"J", "a", "n", "e", " ", "D", "o", "e">>
NameJaneDoeBang == <<"j", "a", "n", "e", " ", "d", "o", "e", "!">>
NameBangs == <<"!", "!">>

RowChest ==
    JDict(<< <<"Area", JStr(<<"C", "h", "e", "s", "t">>)>>, <<"Measurement", JStr(<<"4", "2">>)>>,
             <<"Notes", EmptyStr>> >>)
RowWaist ==
    JDict(<< <<"Area", JStr(<<"W", "a", "i", "s", "t">>)>>, <<"Measurement", JNum(34)>>,
             <<"Notes", JStr(<<"l", "o", "o", "s", "e">>)>> >>)
RowNoNotes == JDict(<< <<"Area", JStr(<<"S", "e", "a", "t">>)>> >>)

ItemSlim == JStr(<<"S", "l", "i", "m", " ", "f", "i", "t">>)
ItemCuff == JStr(<<"F", "r", "e", "n", "c", "h", " ", "c", "u", "f", "f">>)

\* the "Client Information" entry: absent, a dict, or something else
ClientInfoOptions ==
    { <<>>,
      << <<KeyClientInfo, EmptyDict>> >>,
      << <<KeyClientInfo, JDict(<< <<"Name", JStr(NameTestUser)>> >>)>> >>,
      << <<KeyClientInfo, JDict(<< <<"Name", JStr(NameJaneDoe)>>,
                                   <<"Date", JStr(<<"2", "0", "2", "5", "-", "0", "3", "-", "0", "9">>)>>,
                                   <<"Garment", JStr(<<"S", "u", "i", "t">>)>>,
                                   <<"Height", JNum(180)>>,
                                   <<"Weight", JStr(<<"7", "5", " ", "k", "g">>)>>,
                                   <<"Notes", JStr(<<"l", "o", "o", "s", "e">>)>> >>)>> >>,
      << <<KeyClientInfo, JDict(<< <<"Name", JStr(NameJaneDoeBang)>>,
                                   <<"Garment", JStr(<<"S", "u", "i", "t">>)>> >>)>> >>,
      << <<KeyClientInfo, JDict(<< <<"Name", JStr(NameBangs)>>,
                                   <<"Notes", JNull>> >>)>> >>,
      << <<KeyClientInfo, JDict(<< <<"Name", JNum(42)>> >>)>> >>,
      << <<KeyClientInfo, JStr(NameJaneDoe)>> >>,
      << <<KeyClientInfo, JList(<<JStr(NameJaneDoe)>>)>> >> }

\* the two measurement entries: absent, under either spelling, or ill-formed
MeasurementOptions ==
    { <<>>,
      << <<KeyShirtEnDash, JList(<<RowChest, RowWaist>>)>>,
         <<KeyTrouserEnDash, JList(<<RowNoNotes>>)>> >>,
      << <<KeyShirtHyphen, JList(<<RowChest, RowWaist>>)>>,
         <<KeyTrouserHyphen, JList(<<RowNoNotes>>)>> >>,
      << <<KeyShirtEnDash, JList(<<RowWaist>>)>> >>,
      << <<KeyTrouserHyphen, JList(<<RowWaist, RowChest>>)>> >>,
      << <<KeyShirtEnDash, EmptyList>>, <<KeyTrouserEnDash, JNull>> >>,
      << <<KeyShirtEnDash, JList(<<RowChest, JStr(<<"W", "a", "i", "s", "t">>)>>)>> >>,
      << <<KeyTrouserEnDash, JNum(7)>> >> }

\* the "Style Choices" entry
StyleOptions ==
    { <<>>,
      << <<KeyStyles, EmptyDict>> >>,
      << <<KeyStyles, JDict(<< <<"Shirt", JList(<<ItemSlim, ItemCuff>>)>>,
                               <<"Trouser", JList(<<ItemSlim>>)>> >>)>> >>,
      << <<KeyStyles, JDict(<< <<"Trouser", JList(<<ItemCuff, ItemSlim>>)>> >>)>> >>,
      << <<KeyStyles, JList(<<ItemSlim>>)>> >>,
      << <<KeyStyles, JNull>> >>,
      << <<KeyStyles, JDict(<< <<"Shirt", JNum(3)>> >>)>> >> }

\* the "Tailor Instructions" entry
InstructionOptions ==
    { <<>>,
      << <<KeyInstructions, JList(<<ItemCuff, ItemSlim>>)>> >>,
      << <<KeyInstructions, ItemSlim>> >>,
      << <<KeyInstructions, JNull>> >> }

\* the records that are mappings
DictRecords ==
    { JDict(ci \o m \o st \o ins) :
        ci \in ClientInfoOptions, m \in MeasurementOptions,
        st \in StyleOptions, ins \in InstructionOptions }

\* well-formed JSON documents whose top level is not a mapping
NonDictRecords == { JStr(NameJaneDoe), JNum(7), JNull, JList(<<RowChest>>) }

\* what the file named on the command line may hold
Inputs ==
    { [kind |-> "json", data |-> d] : d \in DictRecords \cup NonDictRecords }
    \cup { [kind |-> "unreadable", data |-> JNull], [kind |-> "malformed", data |-> JNull] }

\* no file is named when the command line has no argument
NoInput == [kind |-> "none", data |-> JNull]

\* the command lines: no argument, or the path of a file holding one of inputs
Invocations(inputs) ==
    { [argv |-> <<>>, input |-> NoInput] }
    \cup { [argv |-> <<"client.json">>, input |-> i] : i \in inputs }

\* a record built from one option of each kind
RecordOf(ci, m, st, ins) == JDict(ci \o m \o st \o ins)

FullJaneDoe ==
    RecordOf(<< <<KeyClientInfo, JDict(<< <<"Name", JStr(NameJaneDoe)>>,
                                          <<"Notes", JStr(<<"l", "o", "o", "s", "e">>)>> >>)>> >>,
             << <<KeyShirtEnDash, JList(<<RowChest, RowWaist>>)>> >>,
             << <<KeyStyles, JDict(<< <<"Shirt", JList(<<ItemSlim, ItemCuff>>)>> >>)>> >>,
             << <<KeyInstructions, JList(<<ItemCuff>>)>> >>)

RecordNamed(name) == JDict(<< <<KeyClientInfo, JDict(<< <<"Name", name>> >>)>> >>)

\* the inputs of the invocations made in a row
RunInputs ==
    { [kind |-> "json", data |-> d] :
        d \in { FullJaneDoe, RecordNamed(JStr(NameJaneDoeBang)),
                RecordNamed(JStr(NameTestUser)), RecordNamed(JStr(NameBangs)),
                RecordNamed(JNum(42)), EmptyDict } }
    \cup { [kind |-> "unreadable", data |-> JNull] }

\* sample instants of the UTC clock
ClockTimes ==
    { [Y |-> 2025, M |-> 3, D |-> 9, h |-> 7, m |-> 5],
      [Y |-> 2025, M |-> 12, D |-> 31, h |-> 23, m |-> 59] }

OutputDir == "clients"

NoDirectory == [exists |-> FALSE, files |-> <<>>]
EmptyDirectory == [exists |-> TRUE, files |-> <<>>]

\* os.path.join("clients", f"{slug}.html")
OutPath(slug) == <<OutputDir, "/">> \o slug \o <<".html">>

\* an output directory left by earlier use
UsedDirectory ==
    [exists |-> TRUE,
     files |-> (OutPath(slugify(NameJaneDoe)) :> <<"<!doctype html>", "old">>)]

UsageMsg == "Usage: python scripts/generate_html.py <input_json_path>"

-----------------------------------------------------------------------------
(* One invocation: how it ends                                             *)

NoFrame == [f |-> "", args |-> <<>>, ret |-> <<>>, exc |-> "", done |-> TRUE]

\* the entry the log keeps of a finished invocation
Outcome(st, path, doc) ==
    [argv |-> argv, input |-> input, status |-> st, path |-> path, doc |-> doc]

\* an uncaught exception: the traceback goes to stderr, the exit status is 1
Raise(exc) ==
    /\ pc' = "failed"
    /\ stderr' = exc
    /\ status' = 1
    /\ log' = Append(log, Outcome(1, <<>>, <<>>))

-----------------------------------------------------------------------------
(* The script run as a program: python scripts/generate_html.py [path]     *)

\* line 3: the def statement binds get_list in the module's globals
ModuleDefGetList ==
    /\ pc = "module"
    /\ locals' = ("get_list" :> JStr(<<"<function get_list>">>)) @@ locals
    /\ pc' = "line15"
    /\ UNCHANGED <<argv, input, clients, now, run, stdout, stderr, status, steps,
                   before, log, fn>>

\* line 15: shirt_meas = get_list(data, [...]) at module level; the arguments
\* are evaluated first, and the global name data is bound nowhere above
ModuleShirtMeas ==
    /\ pc = "line15"
    /\ IF "data" \in DOMAIN locals
       THEN /\ locals' = ("shirt_meas" :>
                            get_list(locals["data"], <<KeyShirtEnDash, KeyShirtHyphen>>))
                         @@ locals
            /\ pc' = "line16"
            /\ UNCHANGED <<stderr, status, log>>
       ELSE /\ Raise("NameError")
            /\ UNCHANGED locals
    /\ UNCHANGED <<argv, input, clients, now, run, stdout, steps, before, fn>>

-----------------------------------------------------------------------------
(* main()                                                                  *)

\* lines 63-67: the argument check
CheckArgs ==
    /\ pc = "main"
    /\ IF Len(argv) < 1
       THEN /\ stdout' = Append(stdout, <<UsageMsg>>)
            /\ status' = 1
            /\ pc' = "exited"
            /\ log' = Append(log, Outcome(1, <<>>, <<>>))
            /\ UNCHANGED locals
       ELSE /\ locals' = ("input_path" :> argv[1]) @@ locals
            /\ pc' = "open"
            /\ UNCHANGED <<stdout, status, log>>
    /\ UNCHANGED <<argv, input, clients, now, run, stderr, steps, before, fn>>

\* line 68: open(input_path, 'r', encoding='utf-8')
OpenInput ==
    /\ pc = "open"
    /\ IF input.kind = "unreadable"
       THEN /\ Raise("FileNotFoundError")
            /\ UNCHANGED steps
       ELSE /\ pc' = "load"
            /\ steps' = Append(steps, "read")
            /\ UNCHANGED <<stderr, status, log>>
    /\ UNCHANGED <<argv, input, clients, now, run, locals, stdout, before, fn>>

\* line 69: data = json.load(f)
LoadJson ==
    /\ pc = "load"
    /\ IF input.kind = "malformed"
       THEN /\ Raise("JSONDecodeError")
            /\ UNCHANGED <<locals, steps>>
       ELSE /\ locals' = ("data" :> input.data) @@ locals
            /\ pc' = "extract"
            /\ steps' = Append(steps, "parse")
            /\ UNCHANGED <<stderr, status, log>>
    /\ UNCHANGED <<argv, input, clients, now, run, stdout, before, fn>>

\* lines 72-78: the client information fields
InfoFields(data) ==
    LET ci == safe_get(data, <<KeyClientInfo>>, EmptyDict)
    IN [ci |-> ci,
        name |-> safe_get(ci, <<"Name">>, JStr(UnknownClient)),
        date_str |-> safe_get(ci, <<"Date">>, EmptyStr),
        garment |-> safe_get(ci, <<"Garment">>, EmptyStr),
        height |-> safe_get(ci, <<"Height">>, EmptyStr),
        weight |-> safe_get(ci, <<"Weight">>, EmptyStr),
        notes |-> safe_get(ci, <<"Notes">>, EmptyStr)]

\* line 80: shirt_meas = data.get("Measurements U+2013 Shirt", [])
ShirtMeas(data) == DictGet(data, KeyShirtEnDash, EmptyList)

\* line 81: trouser_meas = data.get("Measurements U+2013 Trouser", [])
TrouserMeas(data) == DictGet(data, KeyTrouserEnDash, EmptyList)

\* lines 80-85: the collections, for a dict data whose styles is a dict
Collections(data) ==
    LET styles == DictGet(data, KeyStyles, EmptyDict)
    IN [shirt_meas |-> ShirtMeas(data),
        trouser_meas |-> TrouserMeas(data),
        styles |-> styles,
        style_shirt |-> DictGet(styles, "Shirt", EmptyList),
        style_trouser |-> DictGet(styles, "Trouser", EmptyList),
        instructions |-> DictGet(data, KeyInstructions, EmptyList)]

\* the exception lines 72-85 raise, "" if none: .get exists on a dict only
ExtractRaises(data) ==
    IF ~IsDict(data) THEN "AttributeError"
    ELSE IF ~IsDict(DictGet(data, KeyStyles, EmptyDict)) THEN "AttributeError"
    ELSE ""

\* lines 72-85: "Read data"
Extract ==
    /\ pc = "extract"
    /\ IF ExtractRaises(locals.data) # ""
       THEN /\ Raise(ExtractRaises(locals.data))
            /\ locals' = (IF IsDict(locals.data)
                          THEN [shirt_meas |-> ShirtMeas(locals.data),
                                trouser_meas |-> TrouserMeas(locals.data),
                                styles |-> DictGet(locals.data, KeyStyles, EmptyDict)]
                          ELSE <<>>)
                         @@ InfoFields(locals.data) @@ locals
            /\ UNCHANGED steps
       ELSE /\ locals' = Collections(locals.data) @@ InfoFields(locals.data) @@ locals
            /\ pc' = "makedirs"
            /\ steps' = Append(steps, "extract")
            /\ UNCHANGED <<stderr, status, log>>
    /\ UNCHANGED <<argv, input, clients, now, run, stdout, before, fn>>

\* line 88: os.makedirs("clients", exist_ok=True)
MakeDirs ==
    /\ pc = "makedirs"
    /\ clients' = [clients EXCEPT !.exists = TRUE]
    /\ pc' = "slugify"
    /\ steps' = Append(steps, "makedirs")
    /\ UNCHANGED <<argv, input, now, run, locals, stdout, stderr, status, before,
                   log, fn>>

\* lines 89-90: slug = slugify(name); out_path = os.path.join(...); only a str
\* has .strip()
ComputeOutPath ==
    /\ pc = "slugify"
    /\ IF locals.name.t # "str"
       THEN /\ Raise("AttributeError")
            /\ UNCHANGED <<locals, steps>>
       ELSE /\ locals' = [slug |-> slugify(locals.name.v),
                          out_path |-> OutPath(slugify(locals.name.v))] @@ locals
            /\ pc' = "render"
            /\ steps' = Append(steps, "slugify")
            /\ UNCHANGED <<stderr, status, log>>
    /\ UNCHANGED <<argv, input, clients, now, run, stdout, before, fn>>

\* the first exception lines 112-128 raise, "" if none
RenderRaises(l) ==
    IF render_table_raises(l.shirt_meas, MeasurementHeaders) # ""
    THEN render_table_raises(l.shirt_meas, MeasurementHeaders)
    ELSE IF render_table_raises(l.trouser_meas, MeasurementHeaders) # ""
    THEN render_table_raises(l.trouser_meas, MeasurementHeaders)
    ELSE IF render_list_raises(l.style_shirt) # "" THEN render_list_raises(l.style_shirt)
    ELSE IF render_list_raises(l.style_trouser) # ""
    THEN render_list_raises(l.style_trouser)
    ELSE render_list_raises(l.instructions)

\* lines 112-128: the fragments
Fragments(l) ==
    [info_html |-> InfoHtml(l.name, l.height, l.weight, l.notes),
     shirt_table |-> render_table(l.shirt_meas, MeasurementHeaders),
     trouser_table |-> render_table(l.trouser_meas, MeasurementHeaders),
     style_shirt_html |-> render_list(l.style_shirt),
     style_trouser_html |-> render_list(l.style_trouser),
     instructions_html |-> render_list(l.instructions)]

\* lines 92-128: css, info_html, the two tables and the three lists
RenderFragments ==
    /\ pc = "render"
    /\ IF RenderRaises(locals) # ""
       THEN /\ Raise(RenderRaises(locals))
            /\ UNCHANGED <<locals, steps>>
       ELSE /\ locals' = Fragments(locals) @@ locals
            /\ pc' = "assemble"
            /\ steps' = Append(steps, "render")
            /\ UNCHANGED <<stderr, status, log>>
    /\ UNCHANGED <<argv, input, clients, now, run, stdout, before, fn>>

\* lines 130-195: html = tpl.substitute(...), reading the clock
Assemble ==
    /\ pc = "assemble"
    /\ \E t \in ClockTimes :
          /\ now' = t
          /\ locals' = [html |-> Substitute(TemplatePieces, SubstituteArgs(locals, t))]
                       @@ locals
    /\ pc' = "write"
    /\ steps' = Append(steps, "assemble")
    /\ UNCHANGED <<argv, input, clients, run, stdout, stderr, status, before, log, fn>>

\* a write that leaves a file that already exists as it is (mode "x")
WriteFileKeepExisting(files, path, doc) == files @@ (path :> doc)

\* open(out_path, "w").write(html): the file at path holds exactly doc
WriteFile(files, path, doc) == (path :> doc) @@ files

\* lines 197-198: the output file is created or overwritten
WriteOutput ==
    /\ pc = "write"
    /\ clients' = [clients EXCEPT !.files = WriteFile(@, locals.out_path, locals.html)]
    /\ pc' = "report"
    /\ steps' = Append(steps, "write")
    /\ UNCHANGED <<argv, input, now, run, locals, stdout, stderr, status, before,
                   log, fn>>

\* line 200: print(f"Created: {out_path}"), then main() returns
Report ==
    /\ pc = "report"
    /\ stdout' = Append(stdout, <<"Created: ">> \o locals.out_path)
    /\ status' = 0
    /\ pc' = "exited"
    /\ steps' = Append(steps, "report")
    /\ log' = Append(log, Outcome(0, locals.out_path, locals.html))
    /\ UNCHANGED <<argv, input, clients, now, run, locals, stderr, before, fn>>

-----------------------------------------------------------------------------
(* Specifications                                                          *)

Epoch == [Y |-> 1970, M |-> 1, D |-> 1, h |-> 0, m |-> 0]

\* the state as an invocation starts at entry, given one of inputs, with the
\* output directory in one of the states dirs
InitAt(entry, inputs, dirs) ==
    /\ \E inv \in Invocations(inputs) : argv = inv.argv /\ input = inv.input
    /\ clients \in dirs
    /\ now = Epoch
    /\ pc = entry
    /\ run = 1
    /\ locals = <<>>
    /\ stdout = <<>>
    /\ stderr = ""
    /\ status = -1
    /\ steps = <<>>
    /\ before = clients
    /\ log = <<>>
    /\ fn = NoFrame

\* the process has ended and the program is invoked again
NewRunAt(entry, inputs) ==
    /\ pc \in {"exited", "failed"}
    /\ run < MaxRuns
    /\ run' = run + 1
    /\ \E inv \in Invocations(inputs) : argv' = inv.argv /\ input' = inv.input
    /\ pc' = entry
    /\ locals' = <<>>
    /\ stdout' = <<>>
    /\ stderr' = ""
    /\ status' = -1
    /\ steps' = <<>>
    /\ before' = clients
    /\ UNCHANGED <<clients, now, log, fn>>

\* The program as it is run: the interpreter executes the file from its first
\* line.  Line 15 raises before the imports, the definitions of the helpers
\* and the call of main() at line 204 are reached.
Init == InitAt("module", RunInputs, {NoDirectory, EmptyDirectory, UsedDirectory})
NewRun == NewRunAt("module", RunInputs)
Next == ModuleDefGetList \/ ModuleShirtMeas \/ NewRun
Spec == Init /\ [][Next]_vars

\* The body of main(), entered at line 63 with the helpers of lines 30-59
\* defined: one invocation, over every input.
MainStep ==
    \/ CheckArgs \/ OpenInput \/ LoadJson \/ Extract \/ MakeDirs
    \/ ComputeOutPath \/ RenderFragments \/ Assemble \/ WriteOutput \/ Report
InitMain == InitAt("main", Inputs, {NoDirectory, EmptyDirectory, UsedDirectory})
SpecMain == InitMain /\ [][MainStep]_vars

\* main() invoked several times in a row, starting without output files
InitRuns == InitAt("main", RunInputs, {NoDirectory, EmptyDirectory})
NewRunMain == NewRunAt("main", RunInputs)
NextRuns == MainStep \/ NewRunMain
SpecRuns == InitRuns /\ [][NextRuns]_vars

-----------------------------------------------------------------------------
(* The helpers applied on their own                                        *)

\* the state as helper f is called with args
InitCall(frames) ==
    /\ fn \in frames
    /\ argv = <<>>
    /\ input = NoInput
    /\ clients = NoDirectory
    /\ now = Epoch
    /\ pc = "call"
    /\ run = 1
    /\ locals = <<>>
    /\ stdout = <<>>
    /\ stderr = ""
    /\ status = -1
    /\ steps = <<>>
    /\ before = NoDirectory
    /\ log = <<>>

Frame(f, args) == [f |-> f, args |-> args, ret |-> <<>>, exc |-> "", done |-> FALSE]

\* the helper returns ret, or raises exc
Return(ret, exc) ==
    /\ fn' = [fn EXCEPT !.ret = ret, !.exc = exc, !.done = TRUE]
    /\ pc' = "returned"
    /\ UNCHANGED <<argv, input, clients, now, run, locals, stdout, stderr, status,
                   steps, before, log>>

NameAlphabet == {"J", "a", "7", " ", "\t", "-", "!", "'", "U+00C9"}

NameOConnor == <<"J", "a", "n", "e", " ", "O", "'", "C", "o", "n", "n", "o", "r", "!", "!">>
NameClient == <<"C", "l", "i", "e", "n", "t">>

\* the names slugify is applied to
Names ==
    UNION { [1..n -> NameAlphabet] : n \in 0..MaxNameLen }
    \cup { NameJaneDoe, NameJaneDoeBang, NameTestUser, NameBangs, NameOConnor,
           NameClient, ClientToken, UnknownClient }

\* slug = slugify(name): name.strip() exists on a str only
CallSlugify ==
    /\ pc = "call"
    /\ fn.f = "slugify"
    /\ IF fn.args[1].t # "str"
       THEN Return(<<>>, "AttributeError")
       ELSE Return(slugify(fn.args[1].v), "")

InitSlugify ==
    InitCall({ Frame("slugify", <<JStr(n)>>) : n \in Names }
             \cup { Frame("slugify", <<x>>) : x \in {JNum(42), JNull} })
SpecSlugify == InitSlugify /\ [][CallSlugify]_vars

\* the rows a generated measurement sequence is made of
RowValues == { RowChest, RowWaist, RowNoNotes, EmptyDict }

\* row sequences: lists of at most MaxRows mappings, an absent (None) or empty
\* value, and values render_table cannot walk
RowSequences ==
    { JList(rs) : rs \in UNION { [1..n -> RowValues] : n \in 0..MaxRows } }
    \cup { JNull, JNum(7), JList(<<RowChest, JStr(<<"x">>)>>) }

HeaderSequences ==
    { <<>>, <<"Area">>, <<"Notes", "Area">>, MeasurementHeaders,
      <<"Area", "Notes", "Measurement", "Size">> }

ItemValues == { ItemSlim, ItemCuff, EmptyStr, JNum(3) }

\* lists of at most MaxItems text items, and values that cannot be walked
ItemSequences ==
    { JList(xs) : xs \in UNION { [1..n -> ItemValues] : n \in 0..MaxItems } }
    \cup { JNull, JNum(7) }

\* render_table(rows, headers)
CallRenderTable ==
    /\ pc = "call"
    /\ fn.f = "render_table"
    /\ IF render_table_raises(fn.args[1], fn.args[2]) # ""
       THEN Return(<<>>, render_table_raises(fn.args[1], fn.args[2]))
       ELSE Return(render_table(fn.args[1], fn.args[2]), "")

\* "".join([f"<li>{item}</li>" for item in items])
CallRenderList ==
    /\ pc = "call"
    /\ fn.f = "render_list"
    /\ IF render_list_raises(fn.args[1]) # ""
       THEN Return(<<>>, render_list_raises(fn.args[1]))
       ELSE Return(render_list(fn.args[1]), "")

InitFragments ==
    InitCall({ Frame("render_table", <<rows, hs>>) :
                  rows \in RowSequences, hs \in HeaderSequences }
             \cup { Frame("render_list", <<xs>>) : xs \in ItemSequences })
NextFragments == CallRenderTable \/ CallRenderList
SpecFragments == InitFragments /\ [][NextFragments]_vars

-----------------------------------------------------------------------------
(* Vocabulary of the properties                                            *)

Terminal == pc \in {"exited", "failed"}

\* the invocation names a file that holds a JSON document
GivenJson == argv # <<>> /\ input.kind = "json"

TextFields == {"Date", "Garment", "Height", "Weight", "Notes"}
MeasurementKeys == {KeyShirtEnDash, KeyShirtHyphen, KeyTrouserEnDash, KeyTrouserHyphen}

IsText(x) == x.t \in {"str", "num"}
IsListOf(x, Elem(_)) == x.t = "list" /\ \A i \in 1..Len(x.v) : Elem(x.v[i])
Anything(x) == TRUE

\* the text entries of a "Client Information" mapping are text, its Name a string
InfoTextOk(ci) ==
    /\ HasKey(ci, "Name") => Lookup(ci, "Name").t = "str"
    /\ \A f \in TextFields : HasKey(ci, f) => IsText(Lookup(ci, f))

\* the entries of a "Style Choices" mapping are lists of text
StyleListsOk(st) ==
    \A g \in {"Shirt", "Trouser"} : HasKey(st, g) => IsListOf(Lookup(st, g), IsText)

\* a record whose every present entry has the shape the data model gives it
WellFormedRecord(d) ==
    /\ IsDict(d)
    /\ HasKey(d, KeyClientInfo) =>
          IsDict(Lookup(d, KeyClientInfo)) /\ InfoTextOk(Lookup(d, KeyClientInfo))
    /\ \A k \in MeasurementKeys : HasKey(d, k) => IsListOf(Lookup(d, k), IsDict)
    /\ HasKey(d, KeyStyles) =>
          IsDict(Lookup(d, KeyStyles)) /\ StyleListsOk(Lookup(d, KeyStyles))
    /\ HasKey(d, KeyInstructions) => IsListOf(Lookup(d, KeyInstructions), IsText)

\* a record that departs from the data model only by holding something that is
\* not a mapping where a mapping is expected
NonMappingCase(d) ==
    \/ ~IsDict(d)
    \/ /\ IsDict(d)
       /\ HasKey(d, KeyClientInfo) /\ IsDict(Lookup(d, KeyClientInfo)) =>
             InfoTextOk(Lookup(d, KeyClientInfo))
       /\ \A k \in MeasurementKeys : HasKey(d, k) => IsListOf(Lookup(d, k), Anything)
       /\ HasKey(d, KeyStyles) /\ IsDict(Lookup(d, KeyStyles)) =>
             StyleListsOk(Lookup(d, KeyStyles))
       /\ HasKey(d, KeyInstructions) => IsListOf(Lookup(d, KeyInstructions), IsText)
       /\ \/ HasKey(d, KeyClientInfo) /\ ~IsDict(Lookup(d, KeyClientInfo))
          \/ HasKey(d, KeyStyles) /\ ~IsDict(Lookup(d, KeyStyles))
          \/ \E k \in MeasurementKeys :
                HasKey(d, k) /\ ~IsListOf(Lookup(d, k), IsDict)

\* the invocation ended with status 0 and its document is the file at out_path
Succeeded ==
    /\ pc = "exited"
    /\ status = 0
    /\ stderr = ""
    /\ "html" \in DOMAIN locals
    /\ locals.out_path \in DOMAIN clients.files
    /\ clients.files[locals.out_path] = locals.html

HeaderOnlyTable ==
    << "<table><thead><tr>", "<th>", "Area", "</th>", "<th>", "Measurement", "</th>",
       "<th>", "Notes", "</th>", "</tr></thead><tbody>", "</tbody></table>" >>

\* the indices of seq that hold tok, in increasing order
Positions(seq, tok) ==
    SelectSeq([i \in 1..Len(seq) |-> i], LAMBDA i : seq[i] = tok)

\* the pieces of seq strictly between indices a and b
Between(seq, a, b) == SubSeq(seq, a + 1, b - 1)

-----------------------------------------------------------------------------
(* C1                                                                      *)

EnDashKey(k) ==
    CASE k = KeyShirtHyphen -> KeyShirtEnDash
      [] k = KeyTrouserHyphen -> KeyTrouserEnDash
      [] OTHER -> k

\* the record d with its measurement keys spelled with the en dash
EnDashTwin(d) == JDict([i \in 1..Len(d.v) |-> <<EnDashKey(d.v[i][1]), d.v[i][2]>>])

UsesHyphenKeys(d) == IsDict(d) /\ (HasKey(d, KeyShirtHyphen) \/ HasKey(d, KeyTrouserHyphen))

\* C1: a run on a record renders the same shirt and trouser tables as a run on
\* the record that differs from it only in spelling the measurement keys with
\* the en dash instead of the hyphen.
C1_SpellingIrrelevant ==
    (pc \in {"assemble", "write", "report", "exited"} /\ "shirt_table" \in DOMAIN locals)
    => /\ locals.shirt_table =
             render_table(ShirtMeas(EnDashTwin(locals.data)), MeasurementHeaders)
       /\ locals.trouser_table =
             render_table(TrouserMeas(EnDashTwin(locals.data)), MeasurementHeaders)

\* a run on a hyphen-spelled record has rendered its tables
C1_Witness ==
    /\ pc = "exited" /\ status = 0
    /\ UsesHyphenKeys(locals.data)

-----------------------------------------------------------------------------
(* C2                                                                      *)

\* C2: a run on a record that is a mapping, with any of its optional keys
\* absent, ends successfully and writes a document with all four section
\* headings in which each absent text field is empty (Name is "Unknown
\* Client"), each absent measurement sequence gives a header-only table and
\* each absent list gives no list item.
C2_MissingFieldsTolerated ==
    (Terminal /\ GivenJson /\ WellFormedRecord(input.data))
    => /\ Succeeded
       /\ {Heading1, Heading2, Heading3, Heading4} \subseteq Range(locals.html)
       /\ LET d == input.data
              ci == IF HasKey(d, KeyClientInfo) THEN Lookup(d, KeyClientInfo) ELSE EmptyDict
              st == IF HasKey(d, KeyStyles) THEN Lookup(d, KeyStyles) ELSE EmptyDict
          IN /\ ~HasKey(ci, "Name") => locals.name = JStr(UnknownClient)
             /\ ~HasKey(ci, "Date") => locals.date_str = EmptyStr
             /\ ~HasKey(ci, "Garment") => locals.garment = EmptyStr
             /\ ~HasKey(ci, "Height") => locals.height = EmptyStr
             /\ ~HasKey(ci, "Weight") => locals.weight = EmptyStr
             /\ ~HasKey(ci, "Notes") => locals.notes = EmptyStr
             /\ (~HasKey(d, KeyShirtEnDash) /\ ~HasKey(d, KeyShirtHyphen))
                   => locals.shirt_table = HeaderOnlyTable
             /\ (~HasKey(d, KeyTrouserEnDash) /\ ~HasKey(d, KeyTrouserHyphen))
                   => locals.trouser_table = HeaderOnlyTable
             /\ ~HasKey(st, "Shirt") => locals.style_shirt_html = <<>>
             /\ ~HasKey(st, "Trouser") => locals.style_trouser_html = <<>>
             /\ ~HasKey(d, KeyInstructions) => locals.instructions_html = <<>>

\* a run given the minimal record has ended
C2_Witness ==
    /\ Terminal /\ GivenJson
    /\ input.data = RecordNamed(JStr(NameTestUser))

-----------------------------------------------------------------------------
(* C3                                                                      *)

\* C3: a run on a record that holds something that is not a mapping where a
\* mapping is expected (the record itself, "Client Information", "Style
\* Choices", a measurement row) never raises: it ends successfully and writes
\* a document.
C3_NonMappingTolerated ==
    (Terminal /\ GivenJson /\ NonMappingCase(input.data)) => Succeeded

\* a run given such a record has ended
C3_Witness == Terminal /\ GivenJson /\ NonMappingCase(input.data)

-----------------------------------------------------------------------------
(* C4                                                                      *)

\* C4: an invocation without the input-path argument ends in the usage exit
\* and nothing else: the usage message is the whole of standard output, the
\* status is not zero, no pipeline step was taken and no file was written.
C4_UsageExit ==
    (Terminal /\ argv = <<>>)
    => /\ pc = "exited"
       /\ stdout = << <<UsageMsg>> >>
       /\ stderr = ""
       /\ status # 0
       /\ steps = <<>>
       /\ clients = before

\* an invocation without argument has ended
C4_Witness == Terminal /\ argv = <<>>

-----------------------------------------------------------------------------
(* C5                                                                      *)

PipelineSteps == <<"read", "parse", "extract", "render", "assemble", "write", "report">>

\* C5: an invocation that names a readable, well-formed record takes the steps
\* read, parse, extract, render, assemble, write, report once each, in that
\* order and with nothing in between, and ends by printing the path of the
\* file it has just written.
C5_Pipeline ==
    (Terminal /\ GivenJson /\ WellFormedRecord(input.data))
    => /\ steps = PipelineSteps
       /\ Succeeded
       /\ stdout = << <<"Created: ">> \o locals.out_path >>

\* an invocation naming a well-formed record has ended
C5_Witness == Terminal /\ GivenJson /\ input.data = FullJaneDoe

-----------------------------------------------------------------------------
(* C6                                                                      *)

\* C6: a run that fails leaves the output directory exactly as it found it
\* (not created, no file created or changed), and no run changes a file
\* before it has assembled the whole document.
C6_AllOrNothing ==
    /\ pc = "failed" => clients = before
    /\ clients.files # before.files => "html" \in DOMAIN locals

\* a run has failed after the extraction
C6_Witness == pc = "failed" /\ "name" \in DOMAIN locals /\ "extract" \in Range(steps)

-----------------------------------------------------------------------------
(* C7                                                                      *)

SlugChars == Range(LowerLetters) \cup Range(DigitChars) \cup {"-"}

\* name without its leading and trailing whitespace
Trimmed(name) ==
    LET solid == {i \in 1..Len(name) : ~IsSpace(name[i])}
    IN IF solid = {} THEN <<>>
       ELSE SubSeq(name, CHOOSE i \in solid : \A j \in solid : i <= j,
                         CHOOSE i \in solid : \A j \in solid : j <= i)

\* what one character of the trimmed name leaves in the slug
SlugOfChar(c) ==
    IF c = " " THEN <<"-">>
    ELSE IF LowerChar(c) \in SlugChars THEN <<LowerChar(c)>>
    ELSE <<>>

\* the trimmed name, lowercased, disallowed characters removed, spaces as hyphens
Surviving(name) ==
    Flatten([i \in 1..Len(Trimmed(name)) |-> SlugOfChar(Trimmed(name)[i])])

SlugifyReturned == fn.f = "slugify" /\ fn.done /\ fn.args[1].t = "str"

\* C7 as stated: for every name, slugify returns the trimmed, lowercased name
\* with the disallowed characters removed and the spaces replaced by hyphens;
\* the result is not empty, holds only a-z, 0-9 and "-", and is "client"
\* exactly when nothing survives the stripping.
C7_SlugAsStated ==
    SlugifyReturned
    => /\ fn.exc = ""
       /\ fn.ret # <<>>
       /\ Range(fn.ret) \subseteq SlugChars
       /\ Surviving(fn.args[1].v) # <<>> => fn.ret = Surviving(fn.args[1].v)
       /\ fn.ret = ClientToken <=> Surviving(fn.args[1].v) = <<>>

\* C7 as amended: for every name that is a string, slugify returns the
\* trimmed, lowercased name with the disallowed characters removed and the
\* spaces replaced by hyphens when anything survives, and "client" when
\* nothing does; the result is not empty and holds only a-z, 0-9 and "-".
C7_Slug ==
    SlugifyReturned
    => /\ fn.exc = ""
       /\ fn.ret # <<>>
       /\ Range(fn.ret) \subseteq SlugChars
       /\ Surviving(fn.args[1].v) # <<>> => fn.ret = Surviving(fn.args[1].v)
       /\ Surviving(fn.args[1].v) = <<>> => fn.ret = ClientToken

\* slugify has returned "jane-oconnor" for "Jane O'Connor!!"
C7_Witness ==
    /\ SlugifyReturned
    /\ fn.args[1].v = NameOConnor
    /\ fn.ret = <<"j", "a", "n", "e", "-", "o", "c", "o", "n", "n", "o", "r">>

-----------------------------------------------------------------------------
(* C8                                                                      *)

\* the rows a row sequence holds: none when it is absent (None)
GivenRows(x) == IF x.t = "list" THEN x.v ELSE <<>>

\* the text of row r under column h
CellText(r, h) == IF HasKey(r, h) THEN Format(Lookup(r, h)) ELSE <<>>

TableReturned ==
    /\ fn.f = "render_table" /\ fn.done
    /\ fn.args[1] = JNull \/ IsListOf(fn.args[1], IsDict)

ListReturned == fn.f = "render_list" /\ fn.done /\ fn.args[1].t = "list"

\* the table has one header cell per column, in column order, and one body
\* row per given row, in row order, each with one cell per column
TableShape(ret, rows, hs) ==
    LET th == Positions(ret, "<th>")
        the == Positions(ret, "</th>")
        tr == Positions(ret, "<tr>")
        tre == Positions(ret, "</tr>")
        td == Positions(ret, "<td>")
        tde == Positions(ret, "</td>")
        body == Positions(ret, "</tr></thead><tbody>")
        H == Len(hs)
    IN /\ Len(body) = 1
       /\ ret[1] = "<table><thead><tr>" /\ ret[Len(ret)] = "</tbody></table>"
       /\ Len(th) = H /\ Len(the) = H
       /\ \A j \in 1..H : Between(ret, th[j], the[j]) = <<hs[j]>> /\ the[j] < body[1]
       /\ Len(tr) = Len(rows) /\ Len(tre) = Len(rows)
       /\ \A i \in 1..Len(rows) :
             /\ body[1] < tr[i] /\ tr[i] < tre[i]
             /\ i < Len(rows) => tre[i] < tr[i + 1]
       /\ Len(td) = Len(rows) * H /\ Len(tde) = Len(rows) * H
       /\ \A i \in 1..Len(rows) : \A j \in 1..H :
             LET n == (i - 1) * H + j
             IN /\ tr[i] < td[n] /\ td[n] < tde[n] /\ tde[n] < tre[i]
                /\ Between(ret, td[n], tde[n]) = CellText(rows[i], hs[j])

\* the list markup has one item per entry, in entry order, and nothing else
ListShape(ret, items) ==
    LET li == Positions(ret, "<li>")
        lie == Positions(ret, "</li>")
    IN /\ Len(li) = Len(items) /\ Len(lie) = Len(items)
       /\ items = <<>> => ret = <<>>
       /\ \A i \in 1..Len(items) :
             /\ li[i] < lie[i]
             /\ Between(ret, li[i], lie[i]) = Format(items[i])
             /\ li[i] = IF i = 1 THEN 1 ELSE lie[i - 1] + 1
             /\ i = Len(items) => lie[i] = Len(ret)

\* C8: render_table gives one header cell per column in column order and one
\* body row per input row in input order, each cell holding the row's value
\* for the column or nothing when the row lacks it, and a header-only table
\* for an empty or absent row sequence; the list rendering gives one list item
\* per entry in input order, and none for an empty sequence.
C8_FragmentsPreserveOrder ==
    /\ TableReturned =>
          fn.exc = "" /\ TableShape(fn.ret, GivenRows(fn.args[1]), fn.args[2])
    /\ ListReturned => fn.exc = "" /\ ListShape(fn.ret, fn.args[1].v)

\* render_table has returned for the rows Chest, Waist under the three columns
C8_Witness ==
    /\ TableReturned
    /\ fn.args = <<JList(<<RowChest, RowWaist>>), MeasurementHeaders>>
    /\ Len(Positions(fn.ret, "<tr>")) = 2

-----------------------------------------------------------------------------
(* C9                                                                      *)

\* the document without the generation timestamp, which lies between the
\* piece that ends "Generated on " and the last piece
SansTimestamp(doc) ==
    LET at == Positions(doc, TemplatePieces[Len(TemplatePieces) - 2])
    IN SubSeq(doc, 1, at[Len(at)]) \o <<doc[Len(doc)]>>

SameInvocationTwice ==
    /\ Terminal /\ run = 2 /\ Len(log) = 2
    /\ log[1].argv = log[2].argv /\ log[1].input = log[2].input
    /\ GivenJson /\ WellFormedRecord(input.data)

\* C9: two runs in a row on the same input both succeed, write the same path
\* clients/<slug>.html, the second replacing what the first wrote, and their
\* documents are equal apart from the generation timestamp.
C9_Idempotent ==
    SameInvocationTwice
    => /\ log[1].status = 0 /\ log[2].status = 0
       /\ log[1].path = log[2].path
       /\ log[2].path = OutPath(slugify(safe_get(input.data, <<KeyClientInfo, "Name">>,
                                                 JStr(UnknownClient)).v))
       /\ clients.exists
       /\ clients.files[log[2].path] = log[2].doc
       /\ SansTimestamp(log[1].doc) = SansTimestamp(log[2].doc)

\* the second of two runs on the same record has ended
C9_Witness == SameInvocationTwice /\ input.data = FullJaneDoe

-----------------------------------------------------------------------------
(* C10                                                                     *)

\* the name main() takes from record d
NameOf(d) == safe_get(safe_get(d, <<KeyClientInfo>>, EmptyDict), <<"Name">>,
                      JStr(UnknownClient))

\* the path the run logged as e wrote
PathOf(e) == OutPath(slugify(NameOf(e.input.data).v))

AllSucceeded == \A i \in 1..Len(log) : log[i].status = 0

\* the last entry of the log written to path
LastAt(path) ==
    log[CHOOSE i \in 1..Len(log) :
           /\ PathOf(log[i]) = path
           /\ \A j \in 1..Len(log) : PathOf(log[j]) = path => j <= i]

\* the path the current run writes, <<>> when the run has derived no slug
OwnPath == IF "out_path" \in DOMAIN locals THEN locals.out_path ELSE <<>>

\* C10: after successful runs from an empty output directory, the directory
\* holds one file per distinct slug of the names processed, each file is the
\* document of the latest run with that slug, and a run leaves the files of
\* every other slug as they were.
C10_OneFilePerSlug ==
    /\ (Terminal /\ AllSucceeded)
       => /\ DOMAIN clients.files = {PathOf(log[i]) : i \in 1..Len(log)}
          /\ \A p \in DOMAIN clients.files : clients.files[p] = LastAt(p).doc
    /\ \A p \in DOMAIN before.files :
          p # OwnPath => p \in DOMAIN clients.files /\ clients.files[p] = before.files[p]

\* "Jane Doe" then "jane doe!": one file, holding the second run's document
C10_Witness ==
    /\ Terminal /\ AllSucceeded /\ Len(log) = 2
    /\ NameOf(log[1].input.data) = JStr(NameJaneDoe)
    /\ NameOf(log[2].input.data) = JStr(NameJaneDoeBang)
    /\ Cardinality(DOMAIN clients.files) = 1
    /\ clients.files[PathOf(log[1])] = log[2].doc
    /\ log[1].doc # log[2].doc

=============================================================================
